---- MODULE Spec2Model ----
(***************************************************************************)
(* Model of physics_sim.cpp: Vector2D, Ball and PhysicsSimulation.         *)
(*                                                                         *)
(* A double is modelled as an exact rational <<n, d>> in lowest terms with *)
(* d > 0, so the arithmetic below is the real-number arithmetic the        *)
(* floating-point code approximates; rounding error is outside the model.  *)
(* sqrt is exact on squares of rationals, and the inputs are drawn so that *)
(* every length the code divides by is such a square. The numbers are      *)
(* followed while their denominators stay within MaxDen.                   *)
(***************************************************************************)
EXTENDS Integers, Sequences, FiniteSets, TLC

VARIABLES
    balls,            \* std::vector<Ball> balls (in SpecBody: the pair under test)
    windowWidth,      \* int windowWidth
    windowHeight,     \* int windowHeight
    collisionCount,   \* int collisionCount
    numBalls,         \* int numBalls
    minRadius,        \* double minRadius
    maxRadius,        \* double maxRadius
    pc,               \* where control is: "start", "idle", "integrate", "sweep", "crashed", "body"
    deltaTime,        \* update's argument
    k,                \* index of the range-for of update (1-based)
    i,                \* outer index of the pair loops (1-based)
    j,                \* inner index of the pair loops (1-based)
    frameCollisions,  \* update's local counter
    lastOp,           \* history: the operation the last step belongs to
    prevOp,           \* history: lastOp before the last top-level call
    prev,             \* history: balls when the last top-level call began
    prev2,            \* history: balls when the call before that began
    count0,           \* history: collisionCount when the last update began
    afterBounce,      \* history: balls when the pair sweep of the last update began
    visited,          \* history: the pairs tested in the last update, in order
    divZero,          \* history: the last seeding divided an int by zero
    steps             \* number of top-level calls made so far

vars == <<balls, windowWidth, windowHeight, collisionCount, numBalls, minRadius,
          maxRadius, pc, deltaTime, k, i, j, frameCollisions, lastOp, prevOp,
          prev, prev2, count0, afterBounce, visited, divZero, steps>>

-----------------------------------------------------------------------------
(* double arithmetic, as exact rationals *)

Abs(n) == IF n < 0 THEN -n ELSE n

RECURSIVE GCD(_, _)
GCD(a, b) == IF b = 0 THEN a ELSE GCD(b, a % b)

\* the rational n/d (d # 0) in lowest terms with a positive denominator
Q(n, d) ==
    LET g == GCD(Abs(n), Abs(d))
        s == IF d < 0 THEN -1 ELSE 1
    IN  <<(s * n) \div g, (s * d) \div g>>

D(n) == <<n, 1>>

\* sums and products, reduced before multiplying out
DAdd(a, b) ==
    LET g == GCD(a[2], b[2])
    IN  Q(a[1] * (b[2] \div g) + b[1] * (a[2] \div g), (a[2] \div g) * b[2])
DNeg(a)    == <<-a[1], a[2]>>
DSub(a, b) == DAdd(a, DNeg(b))
DMul(a, b) ==
    LET g1 == GCD(Abs(a[1]), b[2])
        g2 == GCD(Abs(b[1]), a[2])
    IN  Q((a[1] \div g1) * (b[1] \div g2), (a[2] \div g2) * (b[2] \div g1))
DDiv(a, b) == DMul(a, IF b[1] < 0 THEN <<-b[2], -b[1]>> ELSE <<b[2], b[1]>>)
DLe(a, b)  ==
    LET g == GCD(a[2], b[2])
    IN  a[1] * (b[2] \div g) <= b[1] * (a[2] \div g)
DLt(a, b)  == ~DLe(b, a)
DMax(a, b) == IF DLt(a, b) THEN b ELSE a
DMin(a, b) == IF DLt(b, a) THEN b ELSE a

RECURSIVE SqrtFloor(_)
SqrtFloor(n) ==
    IF n < 2 THEN n
    ELSE LET s == 2 * SqrtFloor(n \div 4)
         IN  IF (s + 1) * (s + 1) <= n THEN s + 1 ELSE s

IsSquare(n) == SqrtFloor(n) * SqrtFloor(n) = n

\* sqrt has a rational value exactly on these arguments
HasSqrt(a) == a[1] >= 0 /\ IsSquare(a[1]) /\ IsSquare(a[2])

DSqrt(a) == <<SqrtFloor(a[1]), SqrtFloor(a[2])>>

\* int / int of C++: the quotient truncated toward zero (b # 0)
IntDiv(a, b) ==
    IF (a >= 0) = (b > 0) THEN Abs(a) \div Abs(b) ELSE -(Abs(a) \div Abs(b))

-----------------------------------------------------------------------------
(* Vector2D *)

Vector2D(x, y) == [x |-> x, y |-> y]

VAdd(a, b) == Vector2D(DAdd(a.x, b.x), DAdd(a.y, b.y))
VSub(a, b) == Vector2D(DSub(a.x, b.x), DSub(a.y, b.y))
VScale(a, s) == Vector2D(DMul(a.x, s), DMul(a.y, s))
dot(a, b) == DAdd(DMul(a.x, b.x), DMul(a.y, b.y))
LengthSq(a) == DAdd(DMul(a.x, a.x), DMul(a.y, a.y))
HasLength(a) == HasSqrt(LengthSq(a))
length(a) == DSqrt(LengthSq(a))

-----------------------------------------------------------------------------
(* Ball *)

Ball(ballId, x, y, vx, vy, r, m) ==
    [id |-> ballId, position |-> Vector2D(x, y), velocity |-> Vector2D(vx, vy),
     radius |-> r, mass |-> m]

\* the largest denominator a coordinate may take in a state that is followed
MaxDen == 128

\* every coordinate of every body of bs is within MaxDen
Bounded(bs) ==
    \A b \in 1..Len(bs) :
        /\ bs[b].position.x[2] <= MaxDen /\ bs[b].position.y[2] <= MaxDen
        /\ bs[b].velocity.x[2] <= MaxDen /\ bs[b].velocity.y[2] <= MaxDen

\* Ball::update
update(ball, dt) ==
    [ball EXCEPT !.position = VAdd(ball.position, VScale(ball.velocity, dt))]

\* one axis of Ball::bounceOffWalls: <<position, velocity>> of that axis
bounceAxis(p, v, radius, dim) ==
    IF DLe(DSub(p, radius), D(0)) THEN <<radius, DNeg(v)>>
    ELSE IF DLe(D(dim), DAdd(p, radius)) THEN <<DSub(D(dim), radius), DNeg(v)>>
    ELSE <<p, v>>

\* Ball::bounceOffWalls
bounceOffWalls(ball, width, height) ==
    LET bx == bounceAxis(ball.position.x, ball.velocity.x, ball.radius, width)
        by == bounceAxis(ball.position.y, ball.velocity.y, ball.radius, height)
    IN  [ball EXCEPT !.position = Vector2D(bx[1], by[1]),
                     !.velocity = Vector2D(bx[2], by[2])]

\* Ball::isCollidingWith: distance.length() <= radius + other.radius, decided
\* on the squares when the length is no rational
isCollidingWith(a, b) ==
    LET distance == VSub(a.position, b.position)
        sum == DAdd(a.radius, b.radius)
    IN  IF HasLength(distance) THEN DLe(length(distance), sum)
        ELSE DLe(D(0), sum) /\ DLe(LengthSq(distance), DMul(sum, sum))

\* the argument of the sqrt in resolveCollision is the square of a rational
CanResolve(a, b) == HasLength(VSub(a.position, b.position))

\* resolveCollision, lines 81-91: <<normal, d>>, with (1, 0) and 1 for
\* coincident centres
collisionNormal(a, b) ==
    LET dist0 == VSub(a.position, b.position)
        d0 == length(dist0)
        zero == d0 = D(0)
        distance == IF zero THEN Vector2D(D(1), D(0)) ELSE dist0
        d == IF zero THEN D(1) ELSE d0
    IN  <<VScale(distance, DDiv(D(1), d)), d>>

\* resolveCollision, lines 94-98: the two positions after the separation
separate(a, b, normal, d) ==
    LET overlap == DSub(DAdd(a.radius, b.radius), d)
        totalMass == DAdd(a.mass, b.mass)
    IN  <<VAdd(a.position, VScale(normal, DDiv(DMul(overlap, b.mass), totalMass))),
          VSub(b.position, VScale(normal, DDiv(DMul(overlap, a.mass), totalMass)))>>

\* applyImpulse with the impulse on other scaled by other's own mass
applyImpulse_OwnMass(a, b, normal, velocityAlongNormal) ==
    LET totalMass == DAdd(a.mass, b.mass)
        impulse == DDiv(DMul(D(2), velocityAlongNormal), totalMass)
    IN  <<VSub(a.velocity, VScale(normal, DMul(impulse, b.mass))),
          VAdd(b.velocity, VScale(normal, DMul(impulse, b.mass)))>>

\* applyImpulse without the factor 2 (restitution 0)
applyImpulse_Inelastic(a, b, normal, velocityAlongNormal) ==
    LET totalMass == DAdd(a.mass, b.mass)
        impulse == DDiv(velocityAlongNormal, totalMass)
    IN  <<VSub(a.velocity, VScale(normal, DMul(impulse, b.mass))),
          VAdd(b.velocity, VScale(normal, DMul(impulse, a.mass)))>>

\* resolveCollision, lines 109-114: the two velocities after the impulse
applyImpulse(a, b, normal, velocityAlongNormal) ==
    LET totalMass == DAdd(a.mass, b.mass)
        impulse == DDiv(DMul(D(2), velocityAlongNormal), totalMass)
    IN  <<VSub(a.velocity, VScale(normal, DMul(impulse, b.mass))),
          VAdd(b.velocity, VScale(normal, DMul(impulse, a.mass)))>>

\* resolveCollision without the test of line 107: the impulse is always applied
resolveCollision_AlwaysImpulse(a, b) ==
    LET nd == collisionNormal(a, b)
        normal == nd[1]
        pos == separate(a, b, normal, nd[2])
        velocityAlongNormal == dot(VSub(a.velocity, b.velocity), normal)
        vel == applyImpulse(a, b, normal, velocityAlongNormal)
    IN  <<[a EXCEPT !.position = pos[1], !.velocity = vel[1]],
          [b EXCEPT !.position = pos[2], !.velocity = vel[2]]>>

\* Ball::resolveCollision: <<this, other>> after the call
resolveCollision(a, b) ==
    LET nd == collisionNormal(a, b)
        normal == nd[1]
        pos == separate(a, b, normal, nd[2])
        relativeVelocity == VSub(a.velocity, b.velocity)
        velocityAlongNormal == dot(relativeVelocity, normal)
        vel == applyImpulse(a, b, normal, velocityAlongNormal)
    IN  IF DLt(D(0), velocityAlongNormal)
        THEN <<[a EXCEPT !.position = pos[1]], [b EXCEPT !.position = pos[2]]>>
        ELSE <<[a EXCEPT !.position = pos[1], !.velocity = vel[1]],
               [b EXCEPT !.position = pos[2], !.velocity = vel[2]]>>

-----------------------------------------------------------------------------
(* Ball's operations called on their own: a body, a second body and the walls *)

MaxCalls == 2

BodyWidth == 20
BodyHeight == 20

BodyPositions ==
    {<<2, 10>>, <<1, 10>>, <<10, 10>>, <<18, 10>>, <<10, 19>>, <<3, 17>>}
BodyOffsets ==
    {<<0, 0>>, <<3, 4>>, <<-4, 3>>, <<5, 0>>, <<0, -2>>, <<6, 0>>}
BodyRadii == {D(2), D(3)}
BodyMassesA == {D(1), Q(3, 2)}
BodyMassesB == {Q(1, 2), Q(3, 2)}
BodyVelocitiesA == {<<-3, 0>>, <<2, -1>>, <<0, 3>>}
BodyVelocitiesB == {<<1, 2>>, <<-2, 1>>, <<0, 0>>}

InitBody ==
    /\ \E p \in BodyPositions, o \in BodyOffsets, ra \in BodyRadii, rb \in BodyRadii,
          ma \in BodyMassesA, mb \in BodyMassesB,
          va \in BodyVelocitiesA, vb \in BodyVelocitiesB :
          balls = <<Ball(1, D(p[1]), D(p[2]), D(va[1]), D(va[2]), ra, ma),
                    Ball(2, D(p[1] - o[1]), D(p[2] - o[2]), D(vb[1]), D(vb[2]), rb, mb)>>
    /\ windowWidth = BodyWidth
    /\ windowHeight = BodyHeight
    /\ collisionCount = 0
    /\ numBalls = 2
    /\ minRadius = D(2)
    /\ maxRadius = D(3)
    /\ pc = "body"
    /\ deltaTime = D(0)
    /\ k = 0 /\ i = 0 /\ j = 0
    /\ frameCollisions = 0
    /\ lastOp = "init" /\ prevOp = "init"
    /\ prev = balls /\ prev2 = balls
    /\ count0 = 0
    /\ afterBounce = <<>>
    /\ visited = <<>>
    /\ divZero = FALSE
    /\ steps = 0

BodyFrame ==
    UNCHANGED <<windowWidth, windowHeight, collisionCount, numBalls, minRadius,
                maxRadius, pc, deltaTime, k, i, j, frameCollisions, count0,
                afterBounce, visited, divZero>>

\* balls[1].resolveCollision(balls[2]) on a pair that isCollidingWith accepts
CallResolve ==
    /\ pc = "body"
    /\ steps < MaxCalls
    /\ isCollidingWith(balls[1], balls[2])
    /\ CanResolve(balls[1], balls[2])
    /\ Bounded(resolveCollision(balls[1], balls[2]))
    /\ balls' = resolveCollision(balls[1], balls[2])
    /\ prev' = balls /\ prev2' = prev
    /\ lastOp' = "resolve" /\ prevOp' = lastOp
    /\ steps' = steps + 1
    /\ BodyFrame

\* balls[1].bounceOffWalls(windowWidth, windowHeight)
CallBounce ==
    /\ pc = "body"
    /\ steps < MaxCalls
    /\ balls' = <<bounceOffWalls(balls[1], windowWidth, windowHeight), balls[2]>>
    /\ prev' = balls /\ prev2' = prev
    /\ lastOp' = "bounce" /\ prevOp' = lastOp
    /\ steps' = steps + 1
    /\ BodyFrame

NextBody == CallResolve \/ CallBounce

SpecBody == InitBody /\ [][NextBody]_vars

-----------------------------------------------------------------------------
(* PhysicsSimulation: the seeding *)

\* the margin kept between a seeded body and the walls
Margin == 5

\* uniform_real_distribution<double>(a, b) at the fraction u of [0, 1); for
\* b < a, which the standard leaves undefined, the value a + (b - a) * u the
\* library computes all the same
UniformReal(a, b, u) == DAdd(a, DMul(DSub(b, a), u))

\* (int)ceil(sqrt(n)), n >= 0
CeilSqrt(n) == IF IsSquare(n) THEN SqrtFloor(n) ELSE SqrtFloor(n) + 1

\* lines 187-188
gridSize(n) ==
    LET g == CeilSqrt(n) IN IF g * g < n THEN g + 1 ELSE g

\* what int / int leaves: the quotient, and for a zero divisor (undefined
\* behaviour) a trap or any value the hardware returns
DivOutcomes(a, b) ==
    IF b # 0 THEN {[trap |-> FALSE, value |-> IntDiv(a, b)]}
    ELSE {[trap |-> TRUE, value |-> 0], [trap |-> FALSE, value |-> 0],
          [trap |-> FALSE, value |-> a]}

\* the draws one body takes from the generator, as fractions of [0, 1) and signs
Draw(ox, oy, ur, uvx, sx, uvy, sy, um) ==
    [ox |-> ox, oy |-> oy, ur |-> ur, uvx |-> uvx, sx |-> sx, uvy |-> uvy,
     sy |-> sy, um |-> um]

\* the streams of draws that are told apart, one per seed of the generator;
\* a stream is repeated when it runs out
Streams ==
    LET h == Q(1, 2)
        z == D(0)
        d1 == Draw(h, h, z, z, -1, z, 1, h)
        d2 == Draw(h, h, z, h, -1, z, 1, z)
        d3 == Draw(z, h, h, z, 1, z, 1, h)
        d4 == Draw(h, z, h, h, 1, h, -1, z)
        c1 == Draw(h, h, z, z, -1, z, -1, h)
        c2 == Draw(h, h, z, h, -1, z, -1, z)
        c3 == Draw(h, h, z, z, -1, h, -1, h)
        c4 == Draw(h, h, z, h, -1, h, -1, z)
    IN  << <<d1, d2, d3, d4>>, <<d2, d3, d4, d1>>, <<d3, d4, d1, d2>>,
           <<c1, c2, c3, c4>> >>

\* the draws of body number ballCount (from 0) in the stream of a seed
Stream(seed, ballCount) == Streams[seed][(ballCount % Len(Streams[seed])) + 1]

\* lines 200-220: the body of the grid cell (row, col)
seedBall(ballCount, row, col, spacingX, spacingY, w, h, minR, maxR, dr) ==
    LET x0 == DAdd(D(50 + col * spacingX), UniformReal(D(-15), D(15), dr.ox))
        y0 == DAdd(D(50 + row * spacingY), UniformReal(D(-15), D(15), dr.oy))
        radius == UniformReal(minR, maxR, dr.ur)
        x == DMax(DAdd(radius, D(Margin)),
                  DMin(x0, DSub(DSub(D(w), radius), D(Margin))))
        y == DMax(DAdd(radius, D(Margin)),
                  DMin(y0, DSub(DSub(D(h), radius), D(Margin))))
        vx == DMul(UniformReal(D(80), D(200), dr.uvx), D(dr.sx))
        vy == DMul(UniformReal(D(80), D(200), dr.uvy), D(dr.sy))
        mass == UniformReal(Q(1, 2), Q(3, 2), dr.um)
    IN  Ball(ballCount + 1, x, y, vx, vy, radius, mass)

\* lines 193-223: the two nested loops over the grid
seedGrid(n, g, spacingX, spacingY, w, h, minR, maxR, seed) ==
    LET RECURSIVE loop(_, _, _)
        loop(row, col, acc) ==
            IF ~(row < g /\ Len(acc) < n) THEN acc
            ELSE IF col < g /\ Len(acc) < n
                 THEN loop(row, col + 1,
                           Append(acc, seedBall(Len(acc), row, col, spacingX, spacingY,
                                                w, h, minR, maxR, Stream(seed, Len(acc)))))
                 ELSE loop(row + 1, 0, acc)
    IN  loop(0, 0, <<>>)

\* PhysicsSimulation::initializeBalls with the fields w, h, n, minR, maxR
initializeBalls(w, h, n, minR, maxR) ==
    LET g == gridSize(n) IN
    \E seed \in 1..Len(Streams),
       qx \in DivOutcomes(w - 100, g - 1), qy \in DivOutcomes(h - 100, g - 1) :
        /\ collisionCount' = 0
        /\ divZero' = (g - 1 = 0)
        /\ IF qx.trap \/ qy.trap
           THEN balls' = <<>> /\ pc' = "crashed"
           ELSE /\ balls' = seedGrid(n, g, qx.value, qy.value, w, h, minR, maxR, seed)
                /\ pc' = "idle"

-----------------------------------------------------------------------------
(* main: the validation of the input and the size of the window *)

\* lines 340-346
validBalls(n) == IF n < 1 THEN 1 ELSE IF n > 1000 THEN 1000 ELSE n

\* lines 355-356
validMinRadius(r) ==
    LET r1 == IF DLt(r, D(5)) THEN D(5) ELSE r
    IN  IF DLt(D(50), r1) THEN D(50) ELSE r1

\* lines 357-358, minR already validated
validMaxRadius(minR, r) ==
    LET r1 == IF DLt(r, minR) THEN DAdd(minR, D(5)) ELSE r
    IN  IF DLt(D(100), r1) THEN D(100) ELSE r1

Max(a, b) == IF a < b THEN b ELSE a
Min(a, b) == IF b < a THEN b ELSE a

\* lines 372 and 376: 60 * sqrt(n) truncated is the integer root of 3600 * n
windowWidthFor(n) == Min(Max(800, 400 + SqrtFloor(3600 * n)), 1920)

\* lines 373 and 377: 45 * sqrt(n) truncated is the integer root of 2025 * n
windowHeightFor(n) == Min(Max(600, 300 + SqrtFloor(2025 * n)), 1080)

-----------------------------------------------------------------------------
(* PhysicsSimulation: construction, update, reset *)

MaxSteps == 3
MaxCount == 4

\* the arguments the constructor is called with directly:
\* <<width, height, numberOfBalls, minR, maxR>>
WorldArgs ==
    {<<200, 200, n, 10, 20>> : n \in 0..MaxCount}
    \cup {<<200, 200, 2, 20, 10>>, <<200, 200, 2, 0, 10>>, <<0, 200, 2, 10, 20>>,
          <<200, 0, 3, 10, 20>>}

\* what the user types: <<numberOfBalls, minRadius, maxRadius>>
MainInputs == {<<0, 3, 4>>, <<1, 10, 20>>, <<2, 10, 20>>, <<3, 60, 20>>, <<2, 20, 200>>}

\* the frame times update is called with
DeltaTimes == {D(0), Q(1, 2), D(1)}

Init ==
    /\ balls = <<>>
    /\ windowWidth = 0
    /\ windowHeight = 0
    /\ collisionCount = 0
    /\ numBalls = 0
    /\ minRadius = D(0)
    /\ maxRadius = D(0)
    /\ pc = "start"
    /\ deltaTime = D(0)
    /\ k = 0 /\ i = 0 /\ j = 0
    /\ frameCollisions = 0
    /\ lastOp = "init" /\ prevOp = "init"
    /\ prev = <<>> /\ prev2 = <<>>
    /\ count0 = 0
    /\ afterBounce = <<>>
    /\ visited = <<>>
    /\ divZero = FALSE
    /\ steps = 0

\* the history a top-level call leaves, and update's locals it does not touch
CallFrame(op) ==
    /\ lastOp' = op /\ prevOp' = lastOp
    /\ prev' = balls /\ prev2' = prev
    /\ steps' = steps + 1

\* PhysicsSimulation::PhysicsSimulation(width, height, numberOfBalls, minR, maxR)
Construct ==
    /\ pc = "start"
    /\ \E a \in WorldArgs :
        /\ windowWidth' = a[1]
        /\ windowHeight' = a[2]
        /\ numBalls' = a[3]
        /\ minRadius' = D(a[4])
        /\ maxRadius' = D(a[5])
        /\ initializeBalls(a[1], a[2], a[3], D(a[4]), D(a[5]))
    /\ CallFrame("construct")
    /\ UNCHANGED <<deltaTime, k, i, j, frameCollisions, count0, afterBounce, visited>>

\* main, lines 336-410: the input validated, the window sized, the simulation built
Main ==
    /\ pc = "start"
    /\ \E in \in MainInputs :
        LET n == validBalls(in[1])
            minR == validMinRadius(D(in[2]))
            maxR == validMaxRadius(minR, D(in[3]))
        IN  /\ windowWidth' = windowWidthFor(n)
            /\ windowHeight' = windowHeightFor(n)
            /\ numBalls' = n
            /\ minRadius' = minR
            /\ maxRadius' = maxR
            /\ initializeBalls(windowWidthFor(n), windowHeightFor(n), n, minR, maxR)
    /\ CallFrame("main")
    /\ UNCHANGED <<deltaTime, k, i, j, frameCollisions, count0, afterBounce, visited>>

\* PhysicsSimulation::reset
Reset ==
    /\ pc = "idle"
    /\ steps < MaxSteps
    /\ initializeBalls(windowWidth, windowHeight, numBalls, minRadius, maxRadius)
    /\ CallFrame("reset")
    /\ UNCHANGED <<windowWidth, windowHeight, numBalls, minRadius, maxRadius,
                   deltaTime, k, i, j, frameCollisions, count0, afterBounce, visited>>

\* where the pair loops of lines 250-251 begin: <<i, j>>, j > n when no pair is left
FirstPair(n) == IF n >= 2 THEN <<1, 2>> ELSE <<n + 1, n + 2>>

\* NextPair with the inner loop begun at the first body instead of i + 1
NextPair_Restart(a, b, n) ==
    IF b < n THEN <<a, b + 1>>
    ELSE IF a + 1 <= n THEN <<a + 1, 1>>
    ELSE <<n + 1, n + 2>>

\* the pair the loops of lines 250-251 reach after (i, j)
NextPair(a, b, n) ==
    IF b < n THEN <<a, b + 1>>
    ELSE IF a + 2 <= n THEN <<a + 1, a + 2>>
    ELSE <<n + 1, n + 2>>

\* lines 252-256 on the pair (a, b): the bodies after it and whether it collided
sweepPair(bs, a, b) ==
    IF isCollidingWith(bs[a], bs[b])
    THEN LET r == resolveCollision(bs[a], bs[b])
         IN  [balls |-> [bs EXCEPT ![a] = r[1], ![b] = r[2]], hit |-> TRUE]
    ELSE [balls |-> bs, hit |-> FALSE]

\* lines 243-246 on every body
integrateAll(bs, dt, w, h) ==
    [b \in 1..Len(bs) |-> bounceOffWalls(update(bs[b], dt), w, h)]

\* every length the sweep from (a, b) on takes is rational, and the bodies it
\* leaves are within MaxDen
RECURSIVE SweepIsExact(_, _, _)
SweepIsExact(bs, a, b) ==
    IF b > Len(bs) THEN TRUE
    ELSE /\ isCollidingWith(bs[a], bs[b]) => CanResolve(bs[a], bs[b])
         /\ \E r \in {sweepPair(bs, a, b)}, nx \in {NextPair(a, b, Len(bs))} :
                Bounded(r.balls) /\ SweepIsExact(r.balls, nx[1], nx[2])

\* update(dt) can be followed in exact arithmetic from the present bodies
Representable(dt) ==
    \E moved \in {integrateAll(balls, dt, windowWidth, windowHeight)},
       p \in {FirstPair(Len(balls))} :
        Bounded(moved) /\ SweepIsExact(moved, p[1], p[2])

\* PhysicsSimulation::update is entered with deltaTime
BeginUpdate ==
    /\ pc = "idle"
    /\ steps < MaxSteps
    /\ \E dt \in {d \in DeltaTimes : Representable(d)} : deltaTime' = dt
    /\ pc' = "integrate"
    /\ k' = 1
    /\ count0' = collisionCount
    /\ afterBounce' = <<>>
    /\ visited' = <<>>
    /\ CallFrame("update")
    /\ UNCHANGED <<balls, windowWidth, windowHeight, collisionCount, numBalls,
                   minRadius, maxRadius, i, j, frameCollisions, divZero>>

\* lines 243-246: one body is moved and bounced off the walls
IntegrateStep ==
    /\ pc = "integrate"
    /\ k <= Len(balls)
    /\ balls' = [balls EXCEPT
                    ![k] = bounceOffWalls(update(balls[k], deltaTime),
                                          windowWidth, windowHeight)]
    /\ k' = k + 1
    /\ UNCHANGED <<windowWidth, windowHeight, collisionCount, numBalls, minRadius,
                   maxRadius, pc, deltaTime, i, j, frameCollisions, lastOp, prevOp,
                   prev, prev2, count0, afterBounce, visited, divZero, steps>>

\* lines 249-250: the range-for is over, the pair loops begin
StartSweep ==
    /\ pc = "integrate"
    /\ k > Len(balls)
    /\ pc' = "sweep"
    /\ frameCollisions' = 0
    /\ i' = FirstPair(Len(balls))[1]
    /\ j' = FirstPair(Len(balls))[2]
    /\ afterBounce' = balls
    /\ UNCHANGED <<balls, windowWidth, windowHeight, collisionCount, numBalls,
                   minRadius, maxRadius, deltaTime, k, lastOp, prevOp, prev, prev2,
                   count0, visited, divZero, steps>>

\* SweepStep with the total set to the count of the frame
SweepStep_Recount ==
    /\ pc = "sweep"
    /\ j <= Len(balls)
    /\ \E r \in {sweepPair(balls, i, j)}, nx \in {NextPair(i, j, Len(balls))} :
           /\ r.hit => CanResolve(balls[i], balls[j])
           /\ balls' = r.balls
           /\ frameCollisions' = IF r.hit THEN frameCollisions + 1 ELSE frameCollisions
           /\ collisionCount' = IF r.hit THEN frameCollisions + 1 ELSE collisionCount
           /\ visited' = Append(visited, [i |-> i, j |-> j, hit |-> r.hit])
           /\ i' = nx[1]
           /\ j' = nx[2]
    /\ UNCHANGED <<windowWidth, windowHeight, numBalls, minRadius, maxRadius, pc,
                   deltaTime, k, lastOp, prevOp, prev, prev2, count0, afterBounce,
                   divZero, steps>>

\* lines 251-257: the pair (i, j) is tested, and resolved and counted if it collides
SweepStep ==
    /\ pc = "sweep"
    /\ j <= Len(balls)
    /\ \E r \in {sweepPair(balls, i, j)}, nx \in {NextPair(i, j, Len(balls))} :
           /\ r.hit => CanResolve(balls[i], balls[j])
           /\ balls' = r.balls
           /\ frameCollisions' = IF r.hit THEN frameCollisions + 1 ELSE frameCollisions
           /\ collisionCount' = IF r.hit THEN collisionCount + 1 ELSE collisionCount
           /\ visited' = Append(visited, [i |-> i, j |-> j, hit |-> r.hit])
           /\ i' = nx[1]
           /\ j' = nx[2]
    /\ UNCHANGED <<windowWidth, windowHeight, numBalls, minRadius, maxRadius, pc,
                   deltaTime, k, lastOp, prevOp, prev, prev2, count0, afterBounce,
                   divZero, steps>>

\* lines 258-265: no pair is left, update returns
EndUpdate ==
    /\ pc = "sweep"
    /\ j > Len(balls)
    /\ pc' = "idle"
    /\ UNCHANGED <<balls, windowWidth, windowHeight, collisionCount, numBalls,
                   minRadius, maxRadius, deltaTime, k, i, j, frameCollisions, lastOp,
                   prevOp, prev, prev2, count0, afterBounce, visited, divZero, steps>>

Next ==
    \/ Construct
    \/ Main
    \/ Reset
    \/ BeginUpdate
    \/ IntegrateStep
    \/ StartSweep
    \/ SweepStep
    \/ EndUpdate

Spec == Init /\ [][Next]_vars

-----------------------------------------------------------------------------
(* quantities the claims are stated in *)

Momentum(bs) ==
    VAdd(VScale(bs[1].velocity, bs[1].mass), VScale(bs[2].velocity, bs[2].mass))

KineticEnergy(b) == DMul(DMul(Q(1, 2), b.mass), LengthSq(b.velocity))

PairEnergy(bs) == DAdd(KineticEnergy(bs[1]), KineticEnergy(bs[2]))

Coincident(bs) == bs[1].position = bs[2].position

\* the small tolerance of the separation postcondition: 1/1000
Epsilon == Q(1, 1000)

\* distance(a, b) >= a.radius + b.radius - Epsilon, compared on the squares
Separated(a, b) ==
    LET bound == DSub(DAdd(a.radius, b.radius), Epsilon)
    IN  \/ DLe(bound, D(0))
        \/ DLe(DMul(bound, bound), LengthSq(VSub(a.position, b.position)))

\* the body is at or past a wall of the x axis and moves toward the outside
OutwardAtWallX(b, width) ==
    \/ DLe(DSub(b.position.x, b.radius), D(0)) /\ DLt(b.velocity.x, D(0))
    \/ DLe(D(width), DAdd(b.position.x, b.radius)) /\ DLt(D(0), b.velocity.x)

\* the x axis after a bounce from b: clamped to the wall, velocity sign flipped
ClampedFlippedX(b, after, width) ==
    /\ after.velocity.x = DNeg(b.velocity.x)
    /\ after.position.x =
          IF DLe(DSub(b.position.x, b.radius), D(0)) THEN b.radius
          ELSE DSub(D(width), b.radius)

-----------------------------------------------------------------------------
(* C1: after one resolveCollision on a colliding pair with positive masses  *)
(* the total momentum m1*v1 + m2*v2 equals the total before the call, on    *)
(* both axes, whether or not the impulse was applied.                       *)
C1_MomentumConserved ==
    lastOp = "resolve" => Momentum(balls) = Momentum(prev)

\* a resolution that took the impulse branch and changed both velocities
C1_Witness ==
    /\ lastOp = "resolve"
    /\ ~Coincident(prev)
    /\ balls[1].velocity # prev[1].velocity
    /\ balls[2].velocity # prev[2].velocity

(* C2: after one resolveCollision on a colliding pair the total kinetic     *)
(* energy equals the total before the call, also when the centres coincide  *)
(* and the normal is (1, 0).                                                *)
C2_EnergyConserved ==
    lastOp = "resolve" => PairEnergy(balls) = PairEnergy(prev)

\* a resolution of coincident centres that applied the impulse
C2_Witness ==
    /\ lastOp = "resolve"
    /\ Coincident(prev)
    /\ balls[1].velocity # prev[1].velocity

(* C3: after resolveCollision on a colliding pair the centres are at least  *)
(* the sum of the radii apart (up to Epsilon), coincident centres included. *)
C3_OverlapRemoved ==
    lastOp = "resolve" => Separated(balls[1], balls[2])

(* C4 (on the walls of the x axis):                                         *)
(* a body at or past a wall with outward velocity is clamped to the         *)
(* wall and has its normal velocity flipped by one bounceOffWalls, and a    *)
(* second bounceOffWalls directly after changes neither position nor        *)
(* velocity.                                                                *)
C4_BounceIdempotent ==
    (/\ lastOp = "bounce" /\ prevOp = "bounce"
     /\ OutwardAtWallX(prev2[1], windowWidth))
    => /\ ClampedFlippedX(prev2[1], prev[1], windowWidth)
       /\ balls[1] = prev[1]

\* the relative velocity of the pair projected on its collision normal
VelocityAlongNormal(bs) ==
    dot(VSub(bs[1].velocity, bs[2].velocity), collisionNormal(bs[1], bs[2])[1])

\* the call changed nothing of either body but its position
OnlyPositionsChanged(before, after) ==
    \A b \in 1..2 : after[b] = [before[b] EXCEPT !.position = after[b].position]

-----------------------------------------------------------------------------
(* the simulation's claims *)

Seeded == lastOp \in {"construct", "main", "reset"}

AfterUpdate == pc = "idle" /\ lastOp = "update"

\* the body lies inside the container
Inside(b) ==
    /\ DLe(b.radius, b.position.x)
    /\ DLe(b.position.x, DSub(D(windowWidth), b.radius))
    /\ DLe(b.radius, b.position.y)
    /\ DLe(b.position.y, DSub(D(windowHeight), b.radius))

\* the container is wide and high enough to hold the body
Fits(b) ==
    /\ DLt(D(0), b.radius)
    /\ DLe(DMul(D(2), b.radius), D(windowWidth))
    /\ DLe(DMul(D(2), b.radius), D(windowHeight))

\* the centre is in [radius + margin, dimension - radius - margin] on both axes
InSeedRange(b) ==
    LET lo == DAdd(b.radius, D(Margin))
    IN  /\ DLe(lo, b.position.x)
        /\ DLe(b.position.x, DSub(DSub(D(windowWidth), b.radius), D(Margin)))
        /\ DLe(lo, b.position.y)
        /\ DLe(b.position.y, DSub(DSub(D(windowHeight), b.radius), D(Margin)))

Hits(v) == Cardinality({n \in 1..Len(v) : v[n].hit})

VisitedPairs == [n \in 1..Len(visited) |-> <<visited[n].i, visited[n].j>>]

IsPrefix(s, t) == Len(s) <= Len(t) /\ s = SubSeq(t, 1, Len(s))

\* the pairs (a, b), a < b <= n, by ascending a and then ascending b
RECURSIVE PairRows(_, _)
PairRows(a, n) ==
    IF a >= n THEN <<>>
    ELSE [b \in 1..(n - a) |-> <<a, a + b>>] \o PairRows(a + 1, n)

LexPairs(n) == PairRows(1, n)

\* the pairs taken one after the other, each on the bodies the earlier ones left
RECURSIVE SequentialSweep(_, _)
SequentialSweep(bs, pairs) ==
    IF pairs = <<>> THEN bs
    ELSE LET a == Head(pairs)[1]
             b == Head(pairs)[2]
         IN  IF isCollidingWith(bs[a], bs[b])
             THEN SequentialSweep(
                      [bs EXCEPT ![a] = resolveCollision(bs[a], bs[b])[1],
                                 ![b] = resolveCollision(bs[a], bs[b])[2]],
                      Tail(pairs))
             ELSE SequentialSweep(bs, Tail(pairs))

(* C5: after every completed update every body lies inside the container on *)
(* both axes (stated here for containers that can hold each of the bodies). *)
C5_InsideAfterUpdate ==
    (AfterUpdate /\ \A b \in 1..Len(balls) : Fits(balls[b]))
    => \A b \in 1..Len(balls) : Inside(balls[b])

\* during and after an update the count is the count at its start plus the
\* pairs found colliding so far, at most n(n-1)/2 of them
C6_CountsHits ==
    (pc = "sweep" \/ AfterUpdate)
    => /\ collisionCount = count0 + Hits(visited)
       /\ Hits(visited) <= (Len(balls) * (Len(balls) - 1)) \div 2

\* the count never drops but to 0 in a reset, and every seeding leaves it 0
C6_CountStep ==
    /\ collisionCount' < collisionCount => (lastOp' = "reset" /\ collisionCount' = 0)
    /\ (steps' = steps + 1 /\ lastOp' \in {"construct", "main", "reset"})
       => collisionCount' = 0

(* C6: collisionCount never decreases across an update, which raises it by  *)
(* exactly the number of pairs found colliding in its sweep; only reset and *)
(* construction set it, to 0.                                               *)
C6_CollisionCount == [](C6_CountsHits) /\ [][C6_CountStep]_vars

\* an update that counted a collision on top of an earlier update's
C6_Witness ==
    AfterUpdate /\ count0 >= 1 /\ collisionCount > count0

\* the container leaves room for the seeding range of the largest radius
RoomToSeed ==
    LET widest == DMul(D(2), DAdd(DMax(minRadius, maxRadius), D(Margin)))
    IN  DLe(widest, D(windowWidth)) /\ DLe(widest, D(windowHeight))

(* C7: construction and every reset produce exactly numBalls bodies, each   *)
(* with its centre in [radius + 5, dimension - radius - 5] on both axes     *)
(* (stated here for the containers in which that range is not empty).       *)
C7_SeederBounds ==
    (Seeded /\ RoomToSeed)
    => /\ Len(balls) = numBalls
       /\ \A b \in 1..Len(balls) : InSeedRange(balls[b])

(* C8: seeding one body divides by no zero and produces exactly one body,   *)
(* inside the container.                                                    *)
C8_SingleCellGuarded ==
    (Seeded /\ numBalls = 1)
    => /\ ~divZero
       /\ pc # "crashed"
       /\ Len(balls) = 1
       /\ \A b \in 1..Len(balls) : Inside(balls[b])

(* C9: a constructed World has at least one body, every radius positive and *)
(* minRadius <= maxRadius, whatever the constructor was called with.        *)
C9_ConstructorTotal ==
    pc \notin {"start", "crashed", "body"}
    => /\ Len(balls) >= 1
       /\ \A b \in 1..Len(balls) : DLt(D(0), balls[b].radius)
       /\ DLe(minRadius, maxRadius)

(* C10: in an update every body is moved and bounced before any pair is     *)
(* tested; the pairs (i, j), i < j, are then tested once each by ascending  *)
(* i and ascending j, each on the bodies the earlier resolutions left.      *)
C10_UpdateOrder ==
    /\ pc = "integrate"
       => /\ visited = <<>>
          /\ \A b \in 1..Len(balls) :
                balls[b] = IF b < k
                           THEN bounceOffWalls(update(prev[b], deltaTime),
                                               windowWidth, windowHeight)
                           ELSE prev[b]
    /\ (pc = "sweep" \/ AfterUpdate)
       => /\ afterBounce = integrateAll(prev, deltaTime, windowWidth, windowHeight)
          /\ IsPrefix(VisitedPairs, LexPairs(Len(balls)))
          /\ balls = SequentialSweep(afterBounce, VisitedPairs)
    /\ AfterUpdate => VisitedPairs = LexPairs(Len(balls))

\* an update of three or more bodies in which one body collided twice
C10_Witness ==
    /\ AfterUpdate
    /\ Len(balls) >= 3
    /\ \E m, n \in 1..Len(visited) :
          /\ m < n
          /\ visited[m].hit /\ visited[n].hit
          /\ {visited[m].i, visited[m].j} \cap {visited[n].i, visited[n].j} # {}

====
